---- MODULE Spec2Model ----
(***************************************************************************)
(* Model of package golsptoolkit (baseprotocol.go): the LSP base types,    *)
(* the IsLSPAny / IsLSPArrayOrObject type switches, the message structs    *)
(* with their `json:"..."` field tags, and the ErrorCodes constants.       *)
(*                                                                         *)
(* The package has no encoder or decoder of its own: the wire behaviour of *)
(* RequestMessage, ResponseMessage, NotificationMessage and CancelParams   *)
(* is the behaviour of encoding/json (json.Marshal / json.Unmarshal) on    *)
(* the declared field types and tags.  The package needs Go >= 1.18 (it    *)
(* uses `any` and a generic struct), so json.Number is validated both when *)
(* it is marshalled and when a JSON string is unmarshalled into it.        *)
(*                                                                         *)
(* Go strings are sequences of one-character strings.  A Go value held in  *)
(* an interface (LSPAny = any) is a record tagged with its dynamic type k; *)
(* a JSON value is a record tagged with its JSON kind j.                   *)
(***************************************************************************)
EXTENDS Integers, Sequences, FiniteSets, TLC

VARIABLES msg, wire, decoded, rx, received, pc, accepted, kind

vars == <<msg, wire, decoded, rx, received, pc, accepted, kind>>

(***************************************************************************)
(* Bounds of the explored value universe.                                  *)
(***************************************************************************)
\* nesting depth of LSPArray / LSPObject payloads
MaxDepth == 1
\* number of elements of an LSPArray payload
MaxLen == 1

(***************************************************************************)
(* ErrorCodes (baseprotocol.go:100-125), all of type Integer = int32.      *)
(***************************************************************************)
ParseError == -32700
InvalidRequest == -32600
MethodNotFound == -32601
InvalidParams == -32602
InternalError == -32603

JSONRPCReservedErrorRangeStart == -32099
ServerErrorStart == -32099
ServerNotInitialized == -32002
UnknownErrorCode == -32001
JSONRPCReservedErrorRangeEnd == -32000
ServerErrorEnd == -32000

\* mutation: the reserved range stops one short of RequestCancelled
LSPRangeEndOffByOne == -32800 - 1

LSPReservedErrorRangeStart == -32899
RequestFailed == -32803

\* mutation: ServerCancelled renumbered next to RequestFailed
ServerCancelledRenumbered == RequestFailed + 1

ServerCancelled == -32804
ContentModified == -32801
RequestCancelled == -32800
LSPReservedErrorRangeEnd == -32800

\* the eleven error kinds the constants name
ErrorKinds ==
  { "ParseError", "InvalidRequest", "MethodNotFound", "InvalidParams",
    "InternalError", "ServerNotInitialized", "UnknownErrorCode",
    "RequestFailed", "ServerCancelled", "ContentModified", "RequestCancelled" }

\* the constant an error kind's name denotes
ErrorCode(name) ==
  CASE name = "ParseError" -> ParseError
    [] name = "InvalidRequest" -> InvalidRequest
    [] name = "MethodNotFound" -> MethodNotFound
    [] name = "InvalidParams" -> InvalidParams
    [] name = "InternalError" -> InternalError
    [] name = "ServerNotInitialized" -> ServerNotInitialized
    [] name = "UnknownErrorCode" -> UnknownErrorCode
    [] name = "RequestFailed" -> RequestFailed
    [] name = "ServerCancelled" -> ServerCancelled
    [] name = "ContentModified" -> ContentModified
    [] name = "RequestCancelled" -> RequestCancelled

(***************************************************************************)
(* Base types (baseprotocol.go:23-30).                                     *)
(***************************************************************************)
\* Integer = int32: the values -2^31 .. 2^31 - 1
IsInteger(n) == n >= -2147483647 - 1 /\ n <= 2147483647
\* UInteger = uint32: the values 0 .. 2^32 - 1 (every value of the model is
\* below the upper end, which is beyond the model checker's integers)
IsUInteger(n) == n >= 0

\* a value of dynamic type k: n its number, s its text, b its truth value,
\* e its elements
GoValue(k, n, s, b, e) == [k |-> k, n |-> n, s |-> s, b |-> b, e |-> e]

\* the nil interface value
GoNil == GoValue("nil", 0, <<>>, FALSE, <<>>)
GoString(s) == GoValue("string", 0, s, FALSE, <<>>)
GoInt32(n) == GoValue("int32", n, <<>>, FALSE, <<>>)
GoUInt32(n) == GoValue("uint32", n, <<>>, FALSE, <<>>)
GoFloat64(n) == GoValue("float64", n, <<>>, FALSE, <<>>)
GoBool(b) == GoValue("bool", 0, <<>>, b, <<>>)
GoInt64(n) == GoValue("int64", n, <<>>, FALSE, <<>>)
\* LSPArray = []LSPAny: e its elements
LSPArray(e) == GoValue("LSPArray", 0, <<>>, FALSE, e)
\* LSPObject = map[string]LSPAny: e its entries [key, val] in key order
LSPObject(e) == GoValue("LSPObject", 0, <<>>, FALSE, e)

\* IsLSPAny: a switch on the dynamic type of v alone
IsLSPAny(v) ==
  v.k \in { "string", "int32", "uint32", "float64", "bool", "nil",
            "LSPObject", "LSPArray" }

\* IsLSPArrayOrObject
IsLSPArrayOrObject(v) == v.k \in { "LSPArray", "LSPObject" }

(***************************************************************************)
(* Go values that interfaces of the model hold.                            *)
(***************************************************************************)
Scalars ==
  { GoNil, GoString(<<"a">>), GoInt32(7), GoUInt32(7),
    GoFloat64(7), GoBool(TRUE), GoInt64(7) }

\* sequences over S of length at most n
SeqsUpTo(S, n) == UNION { [1..m -> S] : m \in 0..n }

\* map[string]LSPAny values with at most the one key "k"
ObjectsOver(S) ==
  { LSPObject(<<>>) } \cup { LSPObject(<<[key |-> <<"k">>, val |-> x]>>) : x \in S }

RECURSIVE ValuesTo(_)
ValuesTo(d) ==
  IF d = 0 THEN Scalars
  ELSE LET below == ValuesTo(d - 1)
       IN  Scalars \cup { LSPArray(s) : s \in SeqsUpTo(below, MaxLen) }
                   \cup ObjectsOver(below)

Values == ValuesTo(MaxDepth)

(***************************************************************************)
(* Number literals.  json.Number is a Go string holding the literal text;  *)
(* encoding/json checks it with isValidNumber (the JSON number grammar).   *)
(***************************************************************************)
Digit == <<"0", "1", "2", "3", "4", "5", "6", "7", "8", "9">>

IsDigit(c) == \E i \in 1..10 : Digit[i] = c

DigitVal(c) == (CHOOSE i \in 1..10 : Digit[i] = c) - 1

\* first index at or after i whose character is no digit (Len(s)+1 if none)
RECURSIVE SkipDigits(_, _)
SkipDigits(s, i) ==
  IF i <= Len(s) /\ IsDigit(s[i]) THEN SkipDigits(s, i + 1) ELSE i

\* encoding/json isValidNumber: -? (0 | [1-9][0-9]*) (. [0-9]+)? ([eE] [+-]? [0-9]*)?
isValidNumber(s) ==
  IF s = <<>> THEN FALSE
  ELSE LET i0 == IF s[1] = "-" THEN 2 ELSE 1
       IN  IF i0 > Len(s) \/ ~IsDigit(s[i0]) THEN FALSE
           ELSE LET i1 == IF s[i0] = "0" THEN i0 + 1 ELSE SkipDigits(s, i0 + 1)
                    i2 == IF i1 + 1 <= Len(s) /\ s[i1] = "." /\ IsDigit(s[i1 + 1])
                          THEN SkipDigits(s, i1 + 2)
                          ELSE i1
                    hasExp == i2 + 1 <= Len(s) /\ s[i2] \in {"e", "E"}
                    signed == hasExp /\ s[i2 + 1] \in {"+", "-"}
                    i3 == IF ~hasExp THEN i2
                          ELSE IF signed THEN SkipDigits(s, i2 + 2)
                          ELSE SkipDigits(s, i2 + 1)
                IN  /\ ~(signed /\ i2 + 2 > Len(s))
                    /\ i3 = Len(s) + 1

\* strconv formatting of a non-negative integer
RECURSIVE FormatUint(_)
FormatUint(n) ==
  IF n < 10 THEN <<Digit[n + 1]>>
  ELSE FormatUint(n \div 10) \o <<Digit[(n % 10) + 1]>>

\* strconv formatting of an integer (also of an integral float64: 7 prints as 7)
FormatInt(n) == IF n < 0 THEN <<"-">> \o FormatUint(-n) ELSE FormatUint(n)

\* an integer literal: -? followed by digits only
IsIntLiteral(s) ==
  /\ isValidNumber(s)
  /\ \A i \in 1..Len(s) : IsDigit(s[i]) \/ (i = 1 /\ s[i] = "-")

RECURSIVE ParseUint(_)
ParseUint(s) ==
  IF s = <<>> THEN 0
  ELSE 10 * ParseUint(SubSeq(s, 1, Len(s) - 1)) + DigitVal(s[Len(s)])

\* strconv parsing of an integer literal
ParseInt(s) == IF s[1] = "-" THEN -ParseUint(Tail(s)) ELSE ParseUint(s)

(***************************************************************************)
(* JSON values on the wire.                                                *)
(***************************************************************************)
\* a JSON value of kind j: s the text of a string or the literal of a
\* number, b a boolean, e the elements of an array or the entries
\* [key, val] of an object
JValue(j, s, b, e) == [j |-> j, s |-> s, b |-> b, e |-> e]

\* a member the object does not have
JAbsent == JValue("absent", <<>>, FALSE, <<>>)
JNull == JValue("null", <<>>, FALSE, <<>>)
JNumber(lit) == JValue("number", lit, FALSE, <<>>)
JString(s) == JValue("string", s, FALSE, <<>>)
JBool(b) == JValue("bool", <<>>, b, <<>>)
JArray(e) == JValue("array", <<>>, FALSE, e)
JObject(e) == JValue("object", <<>>, FALSE, e)
\* what json.Marshal cannot produce (it returns an error instead)
JInvalid == JValue("invalid", <<>>, FALSE, <<>>)

\* the error member of a body: absent, or the object of a ResponseError
JNoError == [j |-> "absent", code |-> JAbsent, message |-> JAbsent, data |-> JAbsent]
JError(code, message, data) ==
  [j |-> "object", code |-> code, message |-> message, data |-> data]

\* what json.Unmarshal cannot store into an interface (it returns an error)
DecodeErr == GoValue("error", 0, <<>>, FALSE, <<>>)

(***************************************************************************)
(* json.Marshal, by field type.                                            *)
(***************************************************************************)
\* an interface value (LSPAny): by its dynamic type
RECURSIVE MarshalAny(_)
MarshalAny(x) ==
  CASE x.k = "nil" -> JNull
    [] x.k = "string" -> JString(x.s)
    [] x.k \in {"int32", "uint32", "int64", "float64"} -> JNumber(FormatInt(x.n))
    [] x.k = "bool" -> JBool(x.b)
    [] x.k = "LSPArray" -> JArray([i \in 1..Len(x.e) |-> MarshalAny(x.e[i])])
    [] x.k = "LSPObject" ->
         JObject([i \in 1..Len(x.e) |->
                    [key |-> x.e[i].key, val |-> MarshalAny(x.e[i].val)]])

\* an interface field tagged `omitempty`: left out when the interface is nil
OmitEmpty(x) == IF x.k = "nil" THEN JAbsent ELSE MarshalAny(x)

\* a json.Number: the literal text, "" written as 0, an invalid literal an error
MarshalNumber(text) ==
  LET lit == IF text = <<>> THEN <<"0">> ELSE text
  IN  IF isValidNumber(lit) THEN JNumber(lit) ELSE JInvalid

\* a *json.Number (ResponseMessage.ID, not omitempty): nil is written as null
MarshalNumberPtr(p) == IF p.isnil THEN JNull ELSE MarshalNumber(p.text)

\* a *ResponseError tagged omitempty: code, message, data (omitempty)
MarshalErrorPtr(p) ==
  IF p.isnil THEN JNoError
  ELSE JError(JNumber(FormatInt(p.code)), JString(p.message), OmitEmpty(p.data))

(***************************************************************************)
(* json.Unmarshal, by field type.  A member that is absent leaves the      *)
(* field at its zero value.                                                *)
(***************************************************************************)
\* into an interface (LSPAny): numbers become float64, arrays []any,
\* objects map[string]any
RECURSIVE UnmarshalAny(_)
UnmarshalAny(j) ==
  CASE j.j \in {"absent", "null"} -> GoNil
    [] j.j = "string" -> GoString(j.s)
    [] j.j = "number" ->
         IF IsIntLiteral(j.s) THEN GoFloat64(ParseInt(j.s)) ELSE DecodeErr
    [] j.j = "bool" -> GoBool(j.b)
    [] j.j = "array" ->
         LET elems == [i \in 1..Len(j.e) |-> UnmarshalAny(j.e[i])]
         IN  IF \E i \in 1..Len(elems) : elems[i].k = "error" THEN DecodeErr
             ELSE LSPArray(elems)
    [] j.j = "object" ->
         LET elems == [i \in 1..Len(j.e) |->
                         [key |-> j.e[i].key, val |-> UnmarshalAny(j.e[i].val)]]
         IN  IF \E i \in 1..Len(elems) : elems[i].val.k = "error" THEN DecodeErr
             ELSE LSPObject(elems)
    [] OTHER -> DecodeErr

\* the outcome of storing a token into a field: ok, and the value stored
Stored(x) == [ok |-> TRUE, val |-> x]

\* into an interface field of a struct
UnmarshalAnyField(j) ==
  LET x == UnmarshalAny(j) IN [ok |-> x.k # "error", val |-> x]

\* into a string field
UnmarshalString(j) ==
  CASE j.j \in {"absent", "null"} -> Stored(<<>>)
    [] j.j = "string" -> Stored(j.s)
    [] OTHER -> [ok |-> FALSE, val |-> <<>>]

\* into a json.Number: a number token gives its text; a string token gives
\* its contents when they are a valid number literal and an error otherwise
UnmarshalNumber(j) ==
  CASE j.j \in {"absent", "null"} -> Stored(<<>>)
    [] j.j = "number" -> Stored(j.s)
    [] j.j = "string" -> [ok |-> isValidNumber(j.s), val |-> j.s]
    [] OTHER -> [ok |-> FALSE, val |-> <<>>]

\* a json.Number value (RequestMessage.ID, CancelParams.ID)
Number(text) == [isnil |-> FALSE, text |-> text]
\* a nil *json.Number (ResponseMessage.ID)
NilNumber == [isnil |-> TRUE, text |-> <<>>]

\* into a *json.Number
UnmarshalNumberPtr(j) ==
  IF j.j \in {"absent", "null"} THEN Stored(NilNumber)
  ELSE LET n == UnmarshalNumber(j) IN [ok |-> n.ok, val |-> Number(n.val)]

\* into an Integer (int32) field
UnmarshalInteger(j) ==
  CASE j.j \in {"absent", "null"} -> Stored(0)
    [] j.j = "number" ->
         IF IsIntLiteral(j.s) /\ IsInteger(ParseInt(j.s))
         THEN Stored(ParseInt(j.s)) ELSE [ok |-> FALSE, val |-> 0]
    [] OTHER -> [ok |-> FALSE, val |-> 0]

\* a non-nil *ResponseError
ResponseError(code, message, data) ==
  [isnil |-> FALSE, code |-> code, message |-> message, data |-> data]
\* a nil *ResponseError
NilError == [isnil |-> TRUE, code |-> 0, message |-> <<>>, data |-> GoNil]

\* into a *ResponseError
UnmarshalErrorPtr(j) ==
  IF j.j = "absent" THEN Stored(NilError)
  ELSE LET code == UnmarshalInteger(j.code)
           message == UnmarshalString(j.message)
           data == UnmarshalAnyField(j.data)
       IN  [ok |-> code.ok /\ message.ok /\ data.ok,
            val |-> ResponseError(code.val, message.val, data.val)]

(***************************************************************************)
(* The message structs.  A message in memory is a record of the fields of  *)
(* all variants; a field its struct does not have stays at its zero value. *)
(***************************************************************************)
\* the text "2.0" of AbstractMessage.JSONRPC
Version == <<"2", ".", "0">>

\* no message: every field at its zero value
NoMsg ==
  [variant |-> "none", jsonrpc |-> <<>>, id |-> NilNumber, method |-> <<>>,
   params |-> GoNil, result |-> GoNil, error |-> NilError]

RequestMessage(id, method, params) ==
  [NoMsg EXCEPT !.variant = "Request", !.jsonrpc = Version, !.id = id,
                !.method = method, !.params = params]

ResponseMessage(id, result, error) ==
  [NoMsg EXCEPT !.variant = "Response", !.jsonrpc = Version, !.id = id,
                !.result = result, !.error = error]

NotificationMessage(method, params) ==
  [NoMsg EXCEPT !.variant = "Notification", !.jsonrpc = Version,
                !.method = method, !.params = params]

CancelParams(id) == [NoMsg EXCEPT !.variant = "CancelParams", !.id = id]

\* the members of a JSON body, every one of them absent
EmptyBody ==
  [jsonrpc |-> JAbsent, id |-> JAbsent, method |-> JAbsent, params |-> JAbsent,
   result |-> JAbsent, error |-> JNoError]

\* the outcome of json.Marshal: an error when a member cannot be written
Body(b) ==
  [ok |-> /\ \A f \in {"jsonrpc", "id", "method", "params", "result"} :
               b[f].j # "invalid"
          /\ b.error.data.j # "invalid",
   val |-> b]

\* json.Marshal of a message, by the field tags of its struct
Marshal(m) ==
  CASE m.variant = "Request" ->
         Body([EmptyBody EXCEPT !.jsonrpc = JString(m.jsonrpc),
                                !.id = MarshalNumber(m.id.text),
                                !.method = JString(m.method),
                                !.params = OmitEmpty(m.params)])
    [] m.variant = "Response" ->
         Body([EmptyBody EXCEPT !.jsonrpc = JString(m.jsonrpc),
                                !.id = MarshalNumberPtr(m.id),
                                !.result = OmitEmpty(m.result),
                                !.error = MarshalErrorPtr(m.error)])
    [] m.variant = "Notification" ->
         Body([EmptyBody EXCEPT !.jsonrpc = JString(m.jsonrpc),
                                !.method = JString(m.method),
                                !.params = OmitEmpty(m.params)])
    [] m.variant = "CancelParams" ->
         Body([EmptyBody EXCEPT !.id = MarshalNumber(m.id.text)])

\* json.Unmarshal of a body into the struct of a variant; members the struct
\* has no field for are ignored
Unmarshal(variant, b) ==
  LET jsonrpc == UnmarshalString(b.jsonrpc)
      method == UnmarshalString(b.method)
      params == UnmarshalAnyField(b.params)
      result == UnmarshalAnyField(b.result)
      error == UnmarshalErrorPtr(b.error)
      id == UnmarshalNumber(b.id)
      idptr == UnmarshalNumberPtr(b.id)
  IN  CASE variant = "Request" ->
             [ok |-> jsonrpc.ok /\ id.ok /\ method.ok /\ params.ok,
              val |-> [RequestMessage(Number(id.val), method.val, params.val)
                         EXCEPT !.jsonrpc = jsonrpc.val]]
        [] variant = "Response" ->
             [ok |-> jsonrpc.ok /\ idptr.ok /\ result.ok /\ error.ok,
              val |-> [ResponseMessage(idptr.val, result.val, error.val)
                         EXCEPT !.jsonrpc = jsonrpc.val]]
        [] variant = "Notification" ->
             [ok |-> jsonrpc.ok /\ method.ok /\ params.ok,
              val |-> [NotificationMessage(method.val, params.val)
                         EXCEPT !.jsonrpc = jsonrpc.val]]
        [] variant = "CancelParams" ->
             [ok |-> id.ok, val |-> CancelParams(Number(id.val))]

\* the LSPAny payload of a message: params, result, or the error's data
Payload(m) ==
  CASE m.variant \in {"Request", "Notification"} -> m.params
    [] m.variant = "Response" -> IF m.error.isnil THEN m.result ELSE m.error.data
    [] OTHER -> GoNil

(***************************************************************************)
(* Inputs.                                                                 *)
(***************************************************************************)
\* json.Number texts a caller may put into an ID field
IDTexts == { <<"1">>, <<"1", ".", "5">>, <<"a", "b", "c">>, <<>> }

IDs == { Number(t) : t \in IDTexts }

IDPtrs == IDs \cup { NilNumber }

Methods == { <<"m">> }

\* the id member of a body a peer sends
PeerIDs ==
  { JNumber(<<"1">>), JString(<<"1">>), JString(<<"a", "b", "c">>), JNull, JAbsent }

\* the payload member of a body a peer sends
PeerPayloads == { JAbsent } \cup { MarshalAny(x) : x \in Scalars }

\* the bodies a peer sends for the struct of a variant
PeerBodies(variant) ==
  CASE variant = "Request" ->
         { [EmptyBody EXCEPT !.jsonrpc = JString(Version), !.id = i,
                             !.method = JString(m), !.params = p] :
             i \in PeerIDs, m \in Methods, p \in PeerPayloads }
    [] variant = "Response" ->
         { [EmptyBody EXCEPT !.jsonrpc = JString(Version), !.id = i, !.result = p] :
             i \in PeerIDs, p \in PeerPayloads }
    [] variant = "Notification" ->
         { [EmptyBody EXCEPT !.jsonrpc = JString(Version),
                             !.method = JString(m), !.params = p] :
             m \in Methods, p \in PeerPayloads }
    [] variant = "CancelParams" ->
         { [EmptyBody EXCEPT !.id = i] : i \in PeerIDs }

Variants == { "Request", "Response", "Notification", "CancelParams" }

(***************************************************************************)
(* State.                                                                  *)
(*   msg      the message value in memory (for a received body: the empty  *)
(*            struct of the variant it is to be stored into)               *)
(*   wire     the body json.Marshal produced, or the body received         *)
(*   decoded  the value json.Unmarshal stored                              *)
(*   rx       the body as the peer sent it                                 *)
(*   received whether the message came from the peer                       *)
(*   pc       idle, built, encoded, decoded, marshal_failed,               *)
(*            unmarshal_failed                                             *)
(*   accepted the answer of IsLSPAny for the payload of msg                *)
(*   kind     the error kind an error response was built for               *)
(***************************************************************************)
Init ==
  /\ msg = NoMsg
  /\ wire = EmptyBody
  /\ decoded = NoMsg
  /\ rx = EmptyBody
  /\ received = FALSE
  /\ pc = "idle"
  /\ accepted = "unchecked"
  /\ kind = "none"

NewRequest ==
  /\ pc = "idle"
  /\ \E id \in IDs, method \in Methods, params \in Values :
     /\ msg' = RequestMessage(id, method, params)
     /\ kind' = "none"
     /\ pc' = "built"
     /\ UNCHANGED <<wire, decoded, rx, received, accepted>>

NewNotification ==
  /\ pc = "idle"
  /\ \E method \in Methods, params \in Values :
     /\ msg' = NotificationMessage(method, params)
     /\ kind' = "none"
     /\ pc' = "built"
     /\ UNCHANGED <<wire, decoded, rx, received, accepted>>

NewResponse ==
  /\ pc = "idle"
  /\ \E id \in IDPtrs, result \in Values :
     /\ msg' = ResponseMessage(id, result, NilError)
     /\ kind' = "none"
     /\ pc' = "built"
     /\ UNCHANGED <<wire, decoded, rx, received, accepted>>

\* a response carrying the error of a kind of the ErrorCodes
NewErrorResponse ==
  /\ pc = "idle"
  /\ \E id \in IDPtrs, k \in ErrorKinds, data \in Scalars :
     /\ msg' = ResponseMessage(id, GoNil, ResponseError(ErrorCode(k), <<"e">>, data))
     /\ kind' = k
     /\ pc' = "built"
     /\ UNCHANGED <<wire, decoded, rx, received, accepted>>

\* a ResponseMessage value with both Result and Error set
NewResultAndError ==
  /\ pc = "idle"
  /\ \E id \in IDPtrs, k \in ErrorKinds, result \in Scalars \ {GoNil} :
     /\ msg' = ResponseMessage(id, result, ResponseError(ErrorCode(k), <<"e">>, GoNil))
     /\ kind' = k
     /\ pc' = "built"
     /\ UNCHANGED <<wire, decoded, rx, received, accepted>>

NewCancelParams ==
  /\ pc = "idle"
  /\ \E id \in IDs :
     /\ msg' = CancelParams(id)
     /\ kind' = "none"
     /\ pc' = "built"
     /\ UNCHANGED <<wire, decoded, rx, received, accepted>>

\* IsLSPAny applied to the payload of the message
Validate ==
  /\ pc = "built"
  /\ accepted = "unchecked"
  /\ msg.variant # "CancelParams"
  /\ accepted' = IF IsLSPAny(Payload(msg)) THEN "yes" ELSE "no"
  /\ UNCHANGED <<msg, wire, decoded, rx, received, pc, kind>>

\* json.Marshal(msg)
Encode ==
  /\ pc = "built"
  /\ LET r == Marshal(msg)
     IN  IF r.ok
         THEN /\ pc' = "encoded"
              /\ wire' = r.val
         ELSE /\ pc' = "marshal_failed"
              /\ UNCHANGED wire
  /\ UNCHANGED <<msg, decoded, rx, received, accepted, kind>>

\* a body arrives from the peer, to be stored into the struct of a variant
Receive ==
  /\ pc = "idle"
  /\ \E variant \in Variants : \E b \in PeerBodies(variant) :
     /\ msg' = [NoMsg EXCEPT !.variant = variant]
     /\ wire' = b
     /\ rx' = b
  /\ received' = TRUE
  /\ pc' = "encoded"
  /\ UNCHANGED <<decoded, accepted, kind>>

\* json.Unmarshal(wire, &decoded)
Decode ==
  /\ pc = "encoded"
  /\ LET r == Unmarshal(msg.variant, wire)
     IN  IF r.ok
         THEN /\ pc' = "decoded"
              /\ decoded' = r.val
         ELSE /\ pc' = "unmarshal_failed"
              /\ UNCHANGED decoded
  /\ UNCHANGED <<msg, wire, rx, received, accepted, kind>>

\* the decoded value is used as a message value of its own
Reuse ==
  /\ pc = "decoded"
  /\ msg' = decoded
  /\ decoded' = NoMsg
  /\ wire' = EmptyBody
  /\ accepted' = "unchecked"
  /\ pc' = "built"
  /\ UNCHANGED <<rx, received, kind>>

\* the message is dropped
Reset ==
  /\ pc # "idle"
  /\ msg' = NoMsg
  /\ wire' = EmptyBody
  /\ decoded' = NoMsg
  /\ rx' = EmptyBody
  /\ received' = FALSE
  /\ pc' = "idle"
  /\ accepted' = "unchecked"
  /\ kind' = "none"

Next ==
  \/ NewRequest
  \/ NewNotification
  \/ NewResponse
  \/ NewErrorResponse
  \/ NewResultAndError
  \/ NewCancelParams
  \/ Validate
  \/ Encode
  \/ Receive
  \/ Decode
  \/ Reuse
  \/ Reset

Spec == Init /\ [][Next]_vars

(***************************************************************************)
(* Properties.                                                             *)
(***************************************************************************)
\* the error catalog as the specification prints it (section 4.6)
Catalog ==
  [ParseError |-> -32700, InvalidRequest |-> -32600, MethodNotFound |-> -32601,
   InvalidParams |-> -32602, InternalError |-> -32603,
   ServerNotInitialized |-> -32002, UnknownErrorCode |-> -32001,
   RequestFailed |-> -32803, ServerCancelled |-> -32804,
   ContentModified |-> -32801, RequestCancelled |-> -32800]

\* the message in memory is an error response built for an error kind
HoldsError == kind # "none" /\ msg.variant = "Response" /\ ~msg.error.isnil

JSONRPCReservedKinds == { "ServerNotInitialized", "UnknownErrorCode" }
LSPReservedKinds ==
  { "RequestFailed", "ServerCancelled", "ContentModified", "RequestCancelled" }

InJSONRPCReservedRange(c) ==
  JSONRPCReservedErrorRangeStart <= c /\ c <= JSONRPCReservedErrorRangeEnd
InLSPReservedRange(c) ==
  LSPReservedErrorRangeStart <= c /\ c <= LSPReservedErrorRangeEnd

\* C10: the code of an error response lies in the JSON-RPC reserved range
\* [-32099,-32000] exactly when its kind is ServerNotInitialized or
\* UnknownErrorCode, and in the LSP reserved range [-32899,-32800] exactly
\* when its kind is RequestFailed, ServerCancelled, ContentModified or
\* RequestCancelled; the two ranges are disjoint; no two kinds share a code;
\* the deprecated ServerErrorStart/ServerErrorEnd equal the JSON-RPC bounds.
C10_ReservedRanges ==
  /\ JSONRPCReservedErrorRangeStart = -32099
  /\ JSONRPCReservedErrorRangeEnd = -32000
  /\ LSPReservedErrorRangeStart = -32899
  /\ LSPReservedErrorRangeEnd = -32800
  /\ ServerErrorStart = JSONRPCReservedErrorRangeStart
  /\ ServerErrorEnd = JSONRPCReservedErrorRangeEnd
  /\ LSPReservedErrorRangeEnd < JSONRPCReservedErrorRangeStart
  /\ HoldsError =>
       /\ InJSONRPCReservedRange(msg.error.code) <=> kind \in JSONRPCReservedKinds
       /\ InLSPReservedRange(msg.error.code) <=> kind \in LSPReservedKinds
       /\ \A other \in ErrorKinds \ {kind} : ErrorCode(other) # msg.error.code

\* C10 witness: an error response of the kind at the end of the LSP range
C10_Witness == HoldsError /\ kind = "RequestCancelled" /\ pc = "built"

\* the kind of token an id member is
IsIDToken(j) == j.j \in {"number", "string"}

\* C2: the type of a message ID is preserved through encode and decode, for
\* every Request, Response and cancel payload: a body received with a number
\* or a string as its id is accepted (also a non-numeric string such as
\* "abc"), and stored and encoded again it carries the same id token, a
\* string still a string and a number still a number; a local ID that is a
\* number literal (or null) comes back from encode and decode unchanged.
C2_IDTypePreserved ==
  /\ (received /\ IsIDToken(rx.id) /\ msg.variant # "Notification") =>
       /\ pc # "unmarshal_failed"
       /\ pc # "marshal_failed"
       /\ pc = "encoded" => wire.id = rx.id
  /\ (/\ ~received
      /\ pc = "decoded"
      /\ msg.variant # "Notification"
      /\ msg.id.isnil \/ isValidNumber(msg.id.text)) =>
       decoded.id = msg.id

\* C3: every Response the encoder emits has exactly one of result and error:
\* the encoded body of a ResponseMessage value (also one with a nil result and
\* no error, and one with both Result and Error set) has one of the two
\* members and not the other.
C3_ExactlyOneOfResultError ==
  (pc = "encoded" /\ ~received /\ msg.variant = "Response") =>
    ((wire.result.j # "absent") # (wire.error.j # "absent"))

\* the StructuredValue grammar of the specification (section 3), recursively
RECURSIVE IsStructuredValue(_)
IsStructuredValue(x) ==
  CASE x.k \in {"string", "float64", "bool", "nil"} -> TRUE
    [] x.k = "int32" -> IsInteger(x.n)
    [] x.k = "uint32" -> IsUInteger(x.n)
    [] x.k = "LSPArray" -> \A i \in 1..Len(x.e) : IsStructuredValue(x.e[i])
    [] x.k = "LSPObject" -> \A i \in 1..Len(x.e) : IsStructuredValue(x.e[i].val)
    [] OTHER -> FALSE

\* C4: payload validation is recursive: IsLSPAny accepts a payload if and
\* only if the payload satisfies the StructuredValue grammar at every depth.
C4_ValidationRecursive ==
  accepted # "unchecked" =>
    ((accepted = "yes") <=> IsStructuredValue(Payload(msg)))

\* a message the specification calls valid: version 2.0, an ID that is a
\* number literal (or, for a Response, null), at most one of result and
\* error, and a payload inside the StructuredValue grammar
IsValidMessage(m) ==
  /\ m.variant \in {"Request", "Response", "Notification"}
  /\ m.jsonrpc = Version
  /\ m.variant = "Request" => isValidNumber(m.id.text)
  /\ m.variant = "Response" =>
       /\ m.id.isnil \/ isValidNumber(m.id.text)
       /\ m.error.isnil \/ m.result.k = "nil"
  /\ IsStructuredValue(Payload(m))

\* C5: for any valid Message m (Request, Response or Notification),
\* decode(encode(m)) equals m field for field, payload values keeping their
\* StructuredValue kind, and the encoding has no id exactly for a Notification.
C5_RoundTrip ==
  (~received /\ pc = "decoded" /\ IsValidMessage(msg)) =>
    /\ decoded = msg
    /\ (wire.id.j = "absent") <=> (msg.variant = "Notification")

====
